---- MODULE Spec2Model ----
(***************************************************************************)
(* The in-memory plan ledger of CodeGoldenAI (the variant with             *)
(* upgradeRequests / userPlans, src/unnamed/part_003 lines 143-294):       *)
(* Google-session identity, /api/me, /api/submit-upgrade, the admin        *)
(* routes and the requirePlan middleware.                                  *)
(*                                                                         *)
(* Spec takes the identity of each request (req.user) as an input, as     *)
(* when any number of browsers hold sessions; SpecSession follows the      *)
(* session of one browser through login and logout.                        *)
(*                                                                         *)
(* Every handler of this variant is synchronous, so one handler is one     *)
(* atomic action.  Date.now() is the variable now.  It is counted in       *)
(* seconds instead of milliseconds (30 days in ms exceeds the model        *)
(* checker's integer range); every time of the model is a whole number of  *)
(* seconds, so the arithmetic of the code is kept exactly.                 *)
(*                                                                         *)
(* req and res are the last request and its response; old is what the     *)
(* ledger held about the identity of that request (its record and its      *)
(* pending plans) when the handler started.  The admin handlers take a     *)
(* parameter auth: whether the caller presented the admin secret.          *)
(*                                                                         *)
(* SpecHttp adds the generation endpoints and the gated pages in front of  *)
(* the ledger.  SpecService is the part of the server beside the ledger:   *)
(* the model-proxy handlers, /api/generate-ai and the chat store, taken    *)
(* from the variants that have them (src/index.js, src/unnamed/part_001,   *)
(* src/unnamed/part_003 from line 297).                                    *)
(***************************************************************************)
EXTENDS Integers, Sequences, FiniteSets, TLC

VARIABLES session, userPlans, upgradeRequests, now, req, res, old,
          reqBody, calls, sent, chatStorage, reqStream

(* what the routes beside the ledger keep *)
service == <<reqBody, calls, sent, chatStorage, reqStream>>

vars == <<session, userPlans, upgradeRequests, now, req, res, old,
          reqBody, calls, sent, chatStorage, reqStream>>

----------------------------------------------------------------------------
(* Bounds of the model *)

MaxReqs == 2
MaxTicks == 1

(* Input domains *)

Emails == {"ann", "bob"}
BodyPlans == {"Free", "Pro", "Gold"}
SubmitPlans == {"Plus", "Free"}
RoutePlans == {"Plus", "Pro"}
GenerateRoutes == {"generate-playground", "generate-advanced"}
Prompts == {"", "hi"}
Pages == {"/advancedai.html", "/engineer.html"}
TickLen == 31 * 24 * 60 * 60

NoUser == "nobody"
Users == Emails \cup {NoUser}
Null == -1

----------------------------------------------------------------------------
(* Helpers translated from the handlers *)

Truthy(x) == x # Null /\ x # 0

duration == 30 * 24 * 60 * 60

FreeRecord == [plan |-> "Free", expiry |-> Null]

allowed == [Free |-> 1, Plus |-> 2, Pro |-> 3]

(* allowed[a] >= allowed[b]; a missing key is undefined and every         *)
(* comparison with undefined is false                                     *)
allowedGE(a, b) ==
    /\ a \in DOMAIN allowed
    /\ b \in DOMAIN allowed
    /\ allowed[a] >= allowed[b]

(* isStale without the expiry test *)
isStaleAbsentOnly(plans, email, t) == email \notin DOMAIN plans

(* !planData || (planData.expiry && now > planData.expiry) *)
isStale(plans, email, t) ==
    \/ email \notin DOMAIN plans
    \/ (Truthy(plans[email].expiry) /\ t > plans[email].expiry)

(* userPlans[email] = record *)
store(plans, email, record) ==
    [e \in DOMAIN plans \cup {email} |->
        IF e = email THEN record ELSE plans[e]]

(* planData of /api/me once the stale record is replaced *)
planDataOf(plans, email, t) ==
    IF isStale(plans, email, t) THEN FreeRecord ELSE plans[email]

(* the plan /api/me reports: getEffectiveTier *)
getEffectiveTier(plans, email, t) == planDataOf(plans, email, t).plan

(* userPlans[email] || { plan: "Free" } *)
gatePlan(plans, email) ==
    IF email \in DOMAIN plans THEN plans[email].plan ELSE "Free"

(* upgradeRequests.filter((r) => r.email !== email) *)
RECURSIVE filterOut(_, _)
filterOut(reqs, email) ==
    IF reqs = <<>> THEN <<>>
    ELSE IF Head(reqs).email # email
         THEN <<Head(reqs)>> \o filterOut(Tail(reqs), email)
         ELSE filterOut(Tail(reqs), email)

(* GET /api/admin/requests sends the whole array *)
listPending == upgradeRequests

Request(op, email, plan) == [op |-> op, email |-> email, plan |-> plan]

Response(status, out, expiry) ==
    [status |-> status, out |-> out, expiry |-> expiry]

(* the pending plans of one identity, in list order *)
RECURSIVE pendingOf(_, _)
pendingOf(reqs, email) ==
    IF reqs = <<>> THEN <<>>
    ELSE IF Head(reqs).email = email
         THEN <<Head(reqs).plan>> \o pendingOf(Tail(reqs), email)
         ELSE pendingOf(Tail(reqs), email)

NoRecord == [plan |-> "none", expiry |-> Null]

(* userPlans[email], NoRecord standing for undefined *)
recordOf(plans, email) ==
    IF email \in DOMAIN plans THEN plans[email] ELSE NoRecord

(* old of a handler that looks no identity up in the ledger *)
(* no request body read yet *)
NoBody == [kind |-> "none", items |-> << >>]

NoSnapshot == [record |-> NoRecord, pending |-> << >>]

(* what the ledger holds about one identity *)
Snapshot(email) ==
    [record |-> recordOf(userPlans, email),
     pending |-> pendingOf(upgradeRequests, email)]

----------------------------------------------------------------------------
Init ==
    /\ session = NoUser
    /\ userPlans = << >>
    /\ upgradeRequests = << >>
    /\ now = 0
    /\ req = Request("none", "", "")
    /\ res = Response(0, "", Null)
    /\ old = NoSnapshot
    /\ reqBody = NoBody
    /\ calls = << >>
    /\ sent = << >>
    /\ chatStorage = << >>
    /\ reqStream = "idle"

(* time passes between requests *)
Tick ==
    /\ now < MaxTicks * TickLen
    /\ now' = now + TickLen
    /\ UNCHANGED <<session, userPlans, upgradeRequests, req, res, old>>
    /\ UNCHANGED service

(* Login giving the identity a fresh Free record *)
LoginResets(email) ==
    /\ session' = email
    /\ req' = Request("login", email, "")
    /\ res' = Response(302, "/index.html", Null)
    /\ old' = NoSnapshot
    /\ userPlans' = store(userPlans, email, FreeRecord)
    /\ UNCHANGED <<upgradeRequests, now>>
    /\ UNCHANGED service

(* GET /auth/google/callback: passport stores the profile in the session *)
Login(email) ==
    /\ session' = email
    /\ req' = Request("login", email, "")
    /\ res' = Response(302, "/index.html", Null)
    /\ old' = NoSnapshot
    /\ UNCHANGED <<userPlans, upgradeRequests, now>>
    /\ UNCHANGED service

(* GET /logout *)
Logout ==
    /\ session' = NoUser
    /\ req' = Request("logout", session, "")
    /\ res' = Response(302, "/login.html", Null)
    /\ old' = NoSnapshot
    /\ UNCHANGED <<userPlans, upgradeRequests, now>>
    /\ UNCHANGED service

(* Me answering Free without writing the record *)
MeNoStore(user) ==
    /\ req' = Request("me", user, "")
    /\ old' = Snapshot(user)
    /\ IF user = NoUser
       THEN res' = Response(200, "loggedOut", Null)
       ELSE res' = Response(200, planDataOf(userPlans, user, now).plan,
                            planDataOf(userPlans, user, now).expiry)
    /\ UNCHANGED <<session, userPlans, upgradeRequests, now>>
    /\ UNCHANGED service

(* GET /api/me; user is req.user *)
Me(user) ==
    /\ req' = Request("me", user, "")
    /\ old' = Snapshot(user)
    /\ IF user = NoUser
       THEN /\ res' = Response(200, "loggedOut", Null)
            /\ UNCHANGED userPlans
       ELSE /\ userPlans' = IF isStale(userPlans, user, now)
                            THEN store(userPlans, user, FreeRecord)
                            ELSE userPlans
            /\ res' = Response(200, planDataOf(userPlans, user, now).plan,
                               planDataOf(userPlans, user, now).expiry)
    /\ UNCHANGED <<session, upgradeRequests, now>>
    /\ UNCHANGED service

(* SubmitUpgrade keeping one pending request per identity *)
SubmitUpgradeOnce(user, plan) ==
    /\ user # NoUser => Len(upgradeRequests) < MaxReqs
    /\ req' = Request("submit", user, plan)
    /\ old' = Snapshot(user)
    /\ IF user = NoUser
       THEN /\ res' = Response(401, "Not logged in", Null)
            /\ UNCHANGED upgradeRequests
       ELSE /\ upgradeRequests' =
                 IF pendingOf(upgradeRequests, user) = << >>
                 THEN Append(upgradeRequests, [email |-> user, plan |-> plan])
                 ELSE upgradeRequests
            /\ res' = Response(200, "success", Null)
    /\ UNCHANGED <<session, userPlans, now>>
    /\ UNCHANGED service

(* SubmitUpgrade without the test of req.user *)
SubmitUpgradeAnyone(user, plan) ==
    /\ Len(upgradeRequests) < MaxReqs
    /\ req' = Request("submit", user, plan)
    /\ old' = Snapshot(user)
    /\ upgradeRequests' =
         Append(upgradeRequests, [email |-> user, plan |-> plan])
    /\ res' = Response(200, "success", Null)
    /\ UNCHANGED <<session, userPlans, now>>
    /\ UNCHANGED service

(* POST /api/submit-upgrade *)
SubmitUpgrade(user, plan) ==
    /\ user # NoUser => Len(upgradeRequests) < MaxReqs
    /\ req' = Request("submit", user, plan)
    /\ old' = Snapshot(user)
    /\ IF user = NoUser
       THEN /\ res' = Response(401, "Not logged in", Null)
            /\ UNCHANGED upgradeRequests
       ELSE /\ upgradeRequests' =
                 Append(upgradeRequests, [email |-> user, plan |-> plan])
            /\ res' = Response(200, "success", Null)
    /\ UNCHANGED <<session, userPlans, now>>
    /\ UNCHANGED service

(* GET /api/admin/requests; the handler does not read req.user *)
AdminRequests ==
    /\ req' = Request("requests", "", "")
    /\ old' = NoSnapshot
    /\ res' = Response(200, "list", Null)
    /\ UNCHANGED <<session, userPlans, upgradeRequests, now>>
    /\ UNCHANGED service

(* AdminApprove granting the plan the earliest pending request asked for *)
AdminApproveRequested(email, plan, auth) ==
    /\ req' = Request("approve", email, plan)
    /\ old' = Snapshot(email)
    /\ userPlans' = store(userPlans, email,
           [plan |-> IF pendingOf(upgradeRequests, email) = << >> THEN plan
                     ELSE Head(pendingOf(upgradeRequests, email)),
            expiry |-> now + duration])
    /\ upgradeRequests' = filterOut(upgradeRequests, email)
    /\ res' = Response(200, "success", Null)
    /\ UNCHANGED <<session, now>>
    /\ UNCHANGED service

(* AdminApprove adding the 30 days to the time the record has left *)
AdminApproveExtend(email, plan, auth) ==
    /\ req' = Request("approve", email, plan)
    /\ old' = Snapshot(email)
    /\ userPlans' = store(userPlans, email,
           [plan |-> plan,
            expiry |-> IF recordOf(userPlans, email).expiry > now
                       THEN recordOf(userPlans, email).expiry + duration
                       ELSE now + duration])
    /\ upgradeRequests' = filterOut(upgradeRequests, email)
    /\ res' = Response(200, "success", Null)
    /\ UNCHANGED <<session, now>>
    /\ UNCHANGED service

(* AdminApprove writing the fields one by one into the record it finds:    *)
(* the plan is replaced, the expiry of an existing record is kept          *)
AdminApproveFieldwise(email, plan, auth) ==
    /\ req' = Request("approve", email, plan)
    /\ old' = Snapshot(email)
    /\ userPlans' = store(userPlans, email,
           [plan |-> plan,
            expiry |-> IF recordOf(userPlans, email).expiry # Null
                       THEN recordOf(userPlans, email).expiry
                       ELSE now + duration])
    /\ upgradeRequests' = filterOut(upgradeRequests, email)
    /\ res' = Response(200, "success", Null)
    /\ UNCHANGED <<session, now>>
    /\ UNCHANGED service

(* POST /api/admin/approve.  auth tells whether the caller presented the  *)
(* admin secret (or is the admin identity); the handler reads neither.    *)
AdminApprove(email, plan, auth) ==
    /\ req' = Request("approve", email, plan)
    /\ old' = Snapshot(email)
    /\ userPlans' = store(userPlans, email,
                          [plan |-> plan, expiry |-> now + duration])
    /\ upgradeRequests' = filterOut(upgradeRequests, email)
    /\ res' = Response(200, "success", Null)
    /\ UNCHANGED <<session, now>>
    /\ UNCHANGED service

(* AdminDecline resetting the declined identity to Free *)
AdminDeclineReset(email, auth) ==
    /\ req' = Request("decline", email, "")
    /\ old' = Snapshot(email)
    /\ userPlans' = store(userPlans, email, FreeRecord)
    /\ upgradeRequests' = filterOut(upgradeRequests, email)
    /\ res' = Response(200, "success", Null)
    /\ UNCHANGED <<session, now>>
    /\ UNCHANGED service

(* AdminDecline emptying the request list *)
AdminDeclineClears(email, auth) ==
    /\ req' = Request("decline", email, "")
    /\ old' = Snapshot(email)
    /\ upgradeRequests' = << >>
    /\ res' = Response(200, "success", Null)
    /\ UNCHANGED <<session, userPlans, now>>
    /\ UNCHANGED service

(* AdminDecline with the filter inverted: r.email === email *)
AdminDeclineInverted(email, auth) ==
    /\ req' = Request("decline", email, "")
    /\ old' = Snapshot(email)
    /\ upgradeRequests' = SelectSeq(upgradeRequests, LAMBDA r : r.email = email)
    /\ res' = Response(200, "success", Null)
    /\ UNCHANGED <<session, userPlans, now>>
    /\ UNCHANGED service

(* POST /api/admin/decline; auth as for approve *)
AdminDecline(email, auth) ==
    /\ req' = Request("decline", email, "")
    /\ old' = Snapshot(email)
    /\ upgradeRequests' = filterOut(upgradeRequests, email)
    /\ res' = Response(200, "success", Null)
    /\ UNCHANGED <<session, userPlans, now>>
    /\ UNCHANGED service

(* requirePlan resetting the record of an identity it turns away *)
requirePlanDowngrades(user, minPlan) ==
    /\ req' = Request("gate", user, minPlan)
    /\ old' = Snapshot(user)
    /\ IF user = NoUser
       THEN /\ res' = Response(302, "/login.html", Null)
            /\ UNCHANGED userPlans
       ELSE IF allowedGE(gatePlan(userPlans, user), minPlan)
            THEN /\ res' = Response(200, "next", Null)
                 /\ UNCHANGED userPlans
            ELSE /\ res' = Response(302, "/plans.html", Null)
                 /\ userPlans' = store(userPlans, user, FreeRecord)
    /\ UNCHANGED <<session, upgradeRequests, now>>
    /\ UNCHANGED service

(* requirePlan with its two redirects exchanged *)
requirePlanSwapped(user, minPlan) ==
    /\ req' = Request("gate", user, minPlan)
    /\ old' = Snapshot(user)
    /\ IF user = NoUser
       THEN res' = Response(302, "/plans.html", Null)
       ELSE IF allowedGE(gatePlan(userPlans, user), minPlan)
            THEN res' = Response(200, "next", Null)
            ELSE res' = Response(302, "/login.html", Null)
    /\ UNCHANGED <<session, userPlans, upgradeRequests, now>>
    /\ UNCHANGED service

(* the middleware requirePlan(minPlan) returns, run in front of a page *)
requirePlan(user, minPlan) ==
    /\ req' = Request("gate", user, minPlan)
    /\ old' = Snapshot(user)
    /\ IF user = NoUser
       THEN res' = Response(302, "/login.html", Null)
       ELSE IF allowedGE(gatePlan(userPlans, user), minPlan)
            THEN res' = Response(200, "next", Null)
            ELSE res' = Response(302, "/plans.html", Null)
    /\ UNCHANGED <<session, userPlans, upgradeRequests, now>>
    /\ UNCHANGED service

(* POST /api/generate-playground and /api/generate-advanced.  The handler  *)
(* reads req.body.prompt and nothing of the session.  completes: the call  *)
(* to the completion API returned; otherwise the catch block answers.      *)
(* The answer 200 "text" is given only after the outbound call.            *)
Generate(route, user, prompt, completes) ==
    /\ req' = Request(route, user, "")
    /\ old' = Snapshot(user)
    /\ IF prompt = ""
       THEN res' = Response(400, "No prompt provided.", Null)
       ELSE IF completes
            THEN res' = Response(200, "text", Null)
            ELSE res' = Response(500, "Error generating response.", Null)
    /\ UNCHANGED <<session, userPlans, upgradeRequests, now>>
    /\ UNCHANGED service

(* the minPlan of the requirePlan mounted on a page *)
pageMinPlan(page) == IF page = "/advancedai.html" THEN "Plus" ELSE "Pro"

(* GET of a gated page through the middleware chain in registration order. *)
(* express.static("public") is registered first and answers with the file  *)
(* when public/ holds it (inPublic), before the session is read and before *)
(* requirePlan.  Otherwise requirePlan runs; its next() reaches no route    *)
(* that sends the page, and the framework answers 404.                     *)
GetPage(user, page, inPublic) ==
    /\ req' = Request(page, user, pageMinPlan(page))
    /\ old' = Snapshot(user)
    /\ IF inPublic
       THEN res' = Response(200, "page", Null)
       ELSE IF user = NoUser
            THEN res' = Response(302, "/login.html", Null)
            ELSE IF allowedGE(gatePlan(userPlans, user), pageMinPlan(page))
                 THEN res' = Response(404, "Not Found", Null)
                 ELSE res' = Response(302, "/plans.html", Null)
    /\ UNCHANGED <<session, userPlans, upgradeRequests, now>>
    /\ UNCHANGED service

(* Requests of any number of clients: req.user is any identity or none *)
Next ==
    \/ Tick
    \/ \E u \in Users : Me(u)
    \/ \E u \in Users, p \in SubmitPlans : SubmitUpgrade(u, p)
    \/ AdminRequests
    \/ \E e \in Emails, p \in BodyPlans, a \in BOOLEAN : AdminApprove(e, p, a)
    \/ \E e \in Emails, a \in BOOLEAN : AdminDecline(e, a)
    \/ \E u \in Users, m \in RoutePlans : requirePlan(u, m)

Spec == Init /\ [][Next]_vars

(* One browser: req.user is the identity its session holds *)
NextSession ==
    \/ Tick
    \/ \E e \in Emails : Login(e)
    \/ Logout
    \/ Me(session)
    \/ \E p \in SubmitPlans : SubmitUpgrade(session, p)
    \/ AdminRequests
    \/ \E e \in Emails, p \in BodyPlans, a \in BOOLEAN : AdminApprove(e, p, a)
    \/ \E e \in Emails, a \in BOOLEAN : AdminDecline(e, a)
    \/ \E m \in RoutePlans : requirePlan(session, m)

SpecSession == Init /\ [][NextSession]_vars

(* The ledger together with the generation endpoints and the gated pages *)
NextHttp ==
    \/ Next
    \/ \E r \in GenerateRoutes, u \in Users, p \in Prompts, c \in BOOLEAN :
          Generate(r, u, p, c)
    \/ \E u \in Users, g \in Pages, f \in BOOLEAN : GetPage(u, g, f)

SpecHttp == Init /\ [][NextHttp]_vars

----------------------------------------------------------------------------
(* The routes beside the ledger: the model-proxy handlers, the chat store  *)
(* and /api/generate-ai.  reqBody is req.body.messages of the last proxy    *)
(* request, calls are the outbound calls its handler made, each with what  *)
(* it sent and whether it returned (ok); sent are the statuses of the      *)
(* responses that handler sent.                                            *)

MaxMsgs == 22
MaxShort == 2

MsgRoles == <<"user", "assistant", "ai">>
RoleShifts == 0..2

(* an array of n message objects; content i stands for the i-th text *)
messagesOf(n, k) ==
    [i \in 1..n |-> [role |-> MsgRoles[((i + k) % 3) + 1], content |-> i]]

(* req.body.messages: undefined, a string, or an array *)
arrayBody(n, k) == [kind |-> "array", items |-> messagesOf(n, k)]
OtherBodies == {[kind |-> "missing", items |-> << >>],
                [kind |-> "string", items |-> << >>]}
ShortBodies ==
    OtherBodies \cup {arrayBody(n, k) : n \in 0..MaxShort, k \in RoleShifts}

(* !messages || !Array.isArray(messages) *)
noMessages(body) == body.kind # "array"

(* messages.map(msg => ({role: msg.role === 'ai' ? 'model' : 'user', ...})) *)
geminiContents(items) ==
    [i \in 1..Len(items) |->
        [role |-> IF items[i].role = "ai" THEN "model" ELSE "user",
         text |-> items[i].content]]

Call(model, contents, ok) == [model |-> model, contents |-> contents, ok |-> ok]

Outcome(made, statuses) == [calls |-> made, sent |-> statuses]

(* catchScope had the handler destructured req.body before its try *)
catchScopeHoisted == {"req", "res", "err", "genAI", "chatStorage", "messages"}

(* the names the catch block of the Gemini 2.5 Pro handler can read: the   *)
(* handler's parameters, err and the module's bindings.  messages is a     *)
(* const of the try block.                                                 *)
catchScope == {"req", "res", "err", "genAI", "chatStorage"}

(* the catch block of the Gemini 2.5 Pro handler, entered after the calls  *)
(* in made: its inner try reads messages, then calls the fallback model    *)
geminiProCatch(body, made, ok2) ==
    IF "messages" \notin catchScope
    THEN Outcome(made, <<500>>)
    ELSE IF body.items = << >>
         THEN Outcome(made, <<500>>)
         ELSE IF ok2
              THEN Outcome(Append(made, Call("gemini-1.5-pro-latest",
                                   geminiContents(body.items), TRUE)), <<200>>)
              ELSE Outcome(Append(made, Call("gemini-1.5-pro-latest",
                                   geminiContents(body.items), FALSE)), <<500>>)

(* the Gemini 2.5 Pro handler: ok1, ok2 tell whether chat.sendMessage of   *)
(* the first and of the fallback model returns.  An empty array fails at   *)
(* contents[contents.length - 1].parts before any call.                    *)
geminiProRun(body, ok1, ok2) ==
    IF noMessages(body)
    THEN Outcome(<< >>, <<400>>)
    ELSE IF body.items = << >>
         THEN geminiProCatch(body, << >>, ok2)
         ELSE IF ok1
              THEN Outcome(<<Call("gemini-2.5-pro",
                                  geminiContents(body.items), TRUE)>>, <<200>>)
              ELSE geminiProCatch(body,
                       <<Call("gemini-2.5-pro",
                              geminiContents(body.items), FALSE)>>, ok2)

(* the status the caller gets: the first response sent *)
answer(run) == Response(run.sent[1], IF run.sent[1] = 200 THEN "text" ELSE "error",
                        Null)

(* POST /api/generate-gemini2.5-pro *)
GeminiPro(body, ok1, ok2) ==
    /\ req' = Request("generate-gemini2.5-pro", "", "")
    /\ reqBody' = body
    /\ calls' = geminiProRun(body, ok1, ok2).calls
    /\ sent' = geminiProRun(body, ok1, ok2).sent
    /\ res' = answer(geminiProRun(body, ok1, ok2))
    /\ UNCHANGED <<session, userPlans, upgradeRequests, now, old>>
    /\ UNCHANGED <<chatStorage, reqStream>>

(* messages.map(msg => ({role: msg.role === 'ai' ? 'assistant' : 'user', ...})) *)
(* behind the system message *)
deepseekMessages(items) ==
    <<[role |-> "system", text |-> 0]>> \o
    [i \in 1..Len(items) |->
        [role |-> IF items[i].role = "ai" THEN "assistant" ELSE "user",
         text |-> items[i].content]]

(* the DeepSeek Chat handler.  reply: "choices" the API answered with      *)
(* choices, "error" it answered without, "throw" fetch or response.json()  *)
(* threw.                                                                  *)
deepseekRun(body, reply) ==
    IF noMessages(body)
    THEN Outcome(<< >>, <<400>>)
    ELSE IF reply = "choices"
         THEN Outcome(<<Call("deepseek-chat",
                             deepseekMessages(body.items), TRUE)>>, <<200>>)
         ELSE Outcome(<<Call("deepseek-chat",
                             deepseekMessages(body.items), FALSE)>>, <<500>>)

Replies == {"choices", "error", "throw"}

(* POST /api/generate-deepseek-chat *)
DeepseekChat(body, reply) ==
    /\ req' = Request("generate-deepseek-chat", "", "")
    /\ reqBody' = body
    /\ calls' = deepseekRun(body, reply).calls
    /\ sent' = deepseekRun(body, reply).sent
    /\ res' = answer(deepseekRun(body, reply))
    /\ UNCHANGED <<session, userPlans, upgradeRequests, now, old>>
    /\ UNCHANGED <<chatStorage, reqStream>>

Window == 20

(* sliceLast keeping the first Window messages: messages.slice(0, Window) *)
sliceFirst(items) ==
    SubSeq(items, 1, IF Len(items) > Window THEN Window ELSE Len(items))

(* messages.slice(-Window): from index max(length - Window, 0) to the end *)
sliceLast(items) ==
    SubSeq(items,
           (IF Len(items) > Window THEN Len(items) - Window ELSE 0) + 1,
           Len(items))

(* recent.map(m => ({role: m.role === "assistant" ? "model" : "user", ...})) *)
ultraContents(items) ==
    [i \in 1..Len(items) |->
        [role |-> IF items[i].role = "assistant" THEN "model" ELSE "user",
         text |-> items[i].content]]

LongBodies ==
    OtherBodies \cup {arrayBody(n, k) : n \in 0..MaxMsgs, k \in RoleShifts}

(* the Ultra handler; ok: model.generateContent returned *)
ultraRun(body, ok) ==
    IF noMessages(body)
    THEN Outcome(<< >>, <<400>>)
    ELSE IF ok
         THEN Outcome(<<Call("gemini-1.5-pro",
                             ultraContents(sliceLast(body.items)), TRUE)>>,
                      <<200>>)
         ELSE Outcome(<<Call("gemini-1.5-pro",
                             ultraContents(sliceLast(body.items)), FALSE)>>,
                      <<500>>)

(* POST /api/generate-ultra *)
Ultra(body, ok) ==
    /\ req' = Request("generate-ultra", "", "")
    /\ reqBody' = body
    /\ calls' = ultraRun(body, ok).calls
    /\ sent' = ultraRun(body, ok).sent
    /\ res' = answer(ultraRun(body, ok))
    /\ UNCHANGED <<session, userPlans, upgradeRequests, now, old>>
    /\ UNCHANGED <<chatStorage, reqStream>>

(* the kinds of POST /api/generate-ai: a JSON body under Content-Type       *)
(* application/json, as the page of this variant sends it; a body that is  *)
(* not JSON under that type; a body under another type                     *)
PostKinds == {"json", "badjson", "text"}

(* POST /api/generate-ai up to the return of its handler.  bodyParser.json *)
(* runs first: it reads a JSON body to its end and calls next(), answers   *)
(* 400 itself for a body it cannot parse, and leaves a body of another     *)
(* type unread.  The handler then only registers its data and end          *)
(* listeners.  One request is followed at a time.                          *)
PostGenerateAi(kind) ==
    /\ reqStream \in {"idle", "answered"}
    /\ req' = Request("generate-ai", "", "")
    /\ reqBody' = [kind |-> kind, items |-> << >>]
    /\ calls' = << >>
    /\ IF kind = "badjson"
       THEN /\ reqStream' = "answered"
            /\ sent' = <<400>>
            /\ res' = Response(400, "error", Null)
       ELSE /\ reqStream' = IF kind = "json" THEN "consumed" ELSE "unread"
            /\ sent' = << >>
            /\ res' = Response(0, "", Null)
    /\ UNCHANGED <<session, userPlans, upgradeRequests, now, old>>
    /\ UNCHANGED chatStorage

(* the end listener of /api/generate-ai: the stream, not read before,      *)
(* delivers the body and ends.  parses: JSON.parse(body) returns; ok: the  *)
(* completion call returns.                                                *)
GenerateAiEnd(parses, ok) ==
    /\ reqStream = "unread"
    /\ reqStream' = "answered"
    /\ req' = Request("generate-ai", "", "")
    /\ calls' = IF parses THEN <<Call("gpt-4o-mini", << >>, ok)>> ELSE << >>
    /\ sent' = IF parses /\ ok THEN <<200>> ELSE <<500>>
    /\ res' = IF parses /\ ok THEN Response(200, "code", Null)
              ELSE Response(500, "AI generation failed", Null)
    /\ UNCHANGED <<session, userPlans, upgradeRequests, now, old>>
    /\ UNCHANGED <<reqBody, chatStorage>>

ChatIds == {"", "c1", "constructor"}
ChatDatas == {"", "d1", "d2"}

(* the properties every object literal inherits from Object.prototype *)
ObjectPrototypeKeys ==
    {"constructor", "toString", "valueOf", "hasOwnProperty", "__proto__"}

(* chatStorage[chatId]: the own property, else the inherited one, else     *)
(* undefined                                                               *)
lookupChat(storage, chatId) ==
    IF chatId \in DOMAIN storage THEN [found |-> "own", value |-> storage[chatId]]
    ELSE IF chatId \in ObjectPrototypeKeys
         THEN [found |-> "inherited", value |-> [data |-> "", lastUpdated |-> Null]]
         ELSE [found |-> "undefined", value |-> [data |-> "", lastUpdated |-> Null]]

(* POST /api/save-chat *)
SaveChat(chatId, chatData) ==
    /\ req' = Request("save-chat", "", "")
    /\ reqBody' = [kind |-> "chat", items |-> <<chatId, chatData>>]
    /\ calls' = << >>
    /\ IF chatId = "" \/ chatData = ""
       THEN /\ sent' = <<400>>
            /\ res' = Response(400, "Chat ID and data are required.", Null)
            /\ UNCHANGED chatStorage
       ELSE /\ chatStorage' = store(chatStorage, chatId,
                                    [data |-> chatData, lastUpdated |-> now])
            /\ sent' = <<200>>
            /\ res' = Response(200, "success", Null)
    /\ UNCHANGED <<session, userPlans, upgradeRequests, now, old>>
    /\ UNCHANGED reqStream

(* GET /api/load-chat/:chatId; a route parameter is never empty *)
LoadChat(chatId) ==
    /\ req' = Request("load-chat", "", "")
    /\ reqBody' = [kind |-> "chat", items |-> <<chatId>>]
    /\ calls' = << >>
    /\ IF lookupChat(chatStorage, chatId).found = "undefined"
       THEN /\ sent' = <<404>>
            /\ res' = Response(404, "Chat not found.", Null)
       ELSE /\ sent' = <<200>>
            /\ res' = Response(200, lookupChat(chatStorage, chatId).value.data,
                               lookupChat(chatStorage, chatId).value.lastUpdated)
    /\ UNCHANGED <<session, userPlans, upgradeRequests, now, old>>
    /\ UNCHANGED <<chatStorage, reqStream>>

NextService ==
    \/ \E b \in ShortBodies, o1 \in BOOLEAN, o2 \in BOOLEAN : GeminiPro(b, o1, o2)
    \/ \E b \in ShortBodies, r \in Replies : DeepseekChat(b, r)
    \/ \E b \in LongBodies, o \in BOOLEAN : Ultra(b, o)
    \/ \E k \in PostKinds : PostGenerateAi(k)
    \/ \E p \in BOOLEAN, o \in BOOLEAN : GenerateAiEnd(p, o)
    \/ \E c \in ChatIds, d \in ChatDatas : SaveChat(c, d)
    \/ \E c \in ChatIds \ {""} : LoadChat(c)

SpecService == Init /\ [][NextService]_vars

(* the stream of a request whose body was not read delivers it and ends *)
SpecServiceLive ==
    SpecService /\ WF_vars(\E p \in BOOLEAN, o \in BOOLEAN : GenerateAiEnd(p, o))

----------------------------------------------------------------------------
(* Notions of the specification, stated independently of the handlers *)

(* the order Free < Plus < Pro; anything else ranks below Free *)
TierRank(t) == CASE t = "Free" -> 1 [] t = "Plus" -> 2 [] t = "Pro" -> 3
                 [] OTHER -> 0

ThirtyDays == 30 * 24 * 60 * 60

(* the record of email has an expiresAt and it has passed at time t *)
Expired(plans, email, t) ==
    /\ email \in DOMAIN plans
    /\ plans[email].expiry # Null
    /\ t > plans[email].expiry

(* reqs without the earliest request of email *)
RECURSIVE RemoveEarliest(_, _)
RemoveEarliest(reqs, email) ==
    IF reqs = <<>> THEN <<>>
    ELSE IF Head(reqs).email = email THEN Tail(reqs)
         ELSE <<Head(reqs)>> \o RemoveEarliest(Tail(reqs), email)

HasPending(email) == pendingOf(upgradeRequests, email) # << >>

(* Every handler overwrites req and leaves the clock alone, Tick does the  *)
(* opposite: a step that changes the state and keeps the clock is a call   *)
(* of the handler req' names, for the identity and with the plan req'      *)
(* holds.                                                                  *)
HandlerStep(op) == now' = now /\ req'.op = op

(* a is b with some entries left out, the others in their order *)
RECURSIVE IsSubseq(_, _)
IsSubseq(a, b) ==
    IF a = << >> THEN TRUE
    ELSE IF b = << >> THEN FALSE
    ELSE IF Head(a) = Head(b) THEN IsSubseq(Tail(a), Tail(b))
    ELSE IsSubseq(a, Tail(b))

----------------------------------------------------------------------------
(* C1: for a logged-in identity requirePlan(minPlan) lets the request      *)
(* through if and only if getEffectiveTier(identity) >= minPlan under      *)
(* Free < Plus < Pro, also when the stored record's expiry has passed.     *)
C1_AccessIffEffectiveTier ==
    [][(HandlerStep("gate") /\ req'.email # NoUser) =>
          ((res'.out = "next") <=>
             (TierRank(getEffectiveTier(userPlans, req'.email, now))
                >= TierRank(req'.plan)))]_vars

(* C2: a record whose expiresAt has passed is read as Free by /api/me and  *)
(* by requirePlan alike, with no other read in between: /api/me reports    *)
(* Free and the gate sends a Plus or Pro page to /plans.html.              *)
C2_ExpiredReadAsFreeEverywhere ==
    [][Expired(userPlans, req'.email, now) =>
          /\ HandlerStep("me") => res'.out = "Free"
          /\ HandlerStep("gate") => res'.out = "/plans.html"]_vars

(* C3: approve for an identity without a pending request fails and leaves  *)
(* the plan records and the request list unchanged.                        *)
C3_ApproveWithoutRequestFails ==
    [][(HandlerStep("approve") /\ ~HasPending(req'.email)) =>
          (res'.status # 200 /\ UNCHANGED <<userPlans, upgradeRequests>>)]_vars

(* C4: approve and decline called without the admin secret get a forbidden *)
(* outcome and leave the plan records and the request list unchanged.      *)
C4_AdminNeedsSecret ==
    [][\A e \in Emails :
         ((\E p \in BodyPlans : AdminApprove(e, p, FALSE)) \/ AdminDecline(e, FALSE)) =>
            (res'.status = 403 /\ UNCHANGED <<userPlans, upgradeRequests>>)]_vars

(* C5: with two or more pending requests of one identity, one approve or   *)
(* decline removes exactly the earliest of them and keeps the others.      *)
C5_ResolvesOnlyEarliest ==
    [][(/\ HandlerStep("approve") \/ HandlerStep("decline")
        /\ Len(pendingOf(upgradeRequests, req'.email)) >= 2) =>
          upgradeRequests' = RemoveEarliest(upgradeRequests, req'.email)]_vars

(* C6: approve with a pending request present stores the plan the admin    *)
(* supplied, whatever plan was requested and whatever the record held.     *)
C6_ApprovedTierWins ==
    [][(HandlerStep("approve") /\ HasPending(req'.email)) =>
          /\ req'.email \in DOMAIN userPlans'
          /\ userPlans'[req'.email].plan = req'.plan]_vars

(* submit Plus, approve with Pro: the record holds Pro *)
C6_Witness ==
    /\ req.op = "approve" /\ req.plan = "Pro"
    /\ old.pending = <<"Plus">>
    /\ old.record.plan = "Free"
    /\ userPlans[req.email].plan = "Pro"

(* C7: approve at time t sets expiry to exactly t + 30 days, whatever      *)
(* expiry the record held before.                                          *)
C7_ExpiryThirtyDaysFromApproval ==
    [][HandlerStep("approve") =>
          /\ req'.email \in DOMAIN userPlans'
          /\ userPlans'[req'.email].expiry = now + ThirtyDays]_vars

(* a record with 30 days left is approved again at the same time: its      *)
(* expiry stays 30 days away *)
C7_Witness ==
    /\ req.op = "approve"
    /\ now = 0
    /\ old.record.expiry = ThirtyDays
    /\ userPlans[req.email].expiry = ThirtyDays

(* C8: /api/me of an identity without a record reports Free and leaves a   *)
(* record with plan Free and no expiry.                                    *)
C8_AbsentReadsFreeAndCreates ==
    [][(HandlerStep("me") /\ req'.email # NoUser
          /\ req'.email \notin DOMAIN userPlans) =>
          /\ res'.out = "Free"
          /\ req'.email \in DOMAIN userPlans'
          /\ userPlans'[req'.email] = [plan |-> "Free", expiry |-> Null]]_vars

C8_Witness ==
    /\ req.op = "me" /\ req.email \in Emails
    /\ old.record = NoRecord
    /\ res.out = "Free"
    /\ req.email \in DOMAIN userPlans
    /\ userPlans[req.email] = [plan |-> "Free", expiry |-> Null]

(* C9: /api/me on a record whose expiry has passed reports Free and stores *)
(* plan Free without expiry; from then on the record stays so, /api/me     *)
(* reports Free and the gate refuses, until an approve for the identity.   *)
C9_ExpiredResetOnRead ==
    [][/\ (HandlerStep("me") /\ Expired(userPlans, req'.email, now)) =>
            /\ res'.out = "Free"
            /\ userPlans'[req'.email] = [plan |-> "Free", expiry |-> Null]
       /\ \A e \in Emails :
            (/\ e \in DOMAIN userPlans
             /\ userPlans[e] = [plan |-> "Free", expiry |-> Null]
             /\ ~ (HandlerStep("approve") /\ req'.email = e)) =>
               /\ e \in DOMAIN userPlans'
               /\ userPlans'[e] = [plan |-> "Free", expiry |-> Null]
               /\ (HandlerStep("me") /\ req'.email = e) => res'.out = "Free"
               /\ (HandlerStep("gate") /\ req'.email = e) => res'.out = "/plans.html"]_vars

(* an expired Pro record was read by /api/me *)
C9_Witness ==
    /\ req.op = "me" /\ req.email \in Emails
    /\ old.record.plan = "Pro"
    /\ old.record.expiry = ThirtyDays
    /\ now > ThirtyDays
    /\ res.out = "Free"
    /\ userPlans[req.email] = [plan |-> "Free", expiry |-> Null]

(* C10: decline leaves the record of the identity, and so its effective    *)
(* tier, as it was.                                                        *)
C10_DeclineKeepsTier ==
    [][HandlerStep("decline") =>
          /\ recordOf(userPlans', req'.email) = recordOf(userPlans, req'.email)
          /\ getEffectiveTier(userPlans', req'.email, now')
               = getEffectiveTier(userPlans, req'.email, now)]_vars

(* a pending request of an identity holding Pro was declined *)
C10_Witness ==
    /\ req.op = "decline"
    /\ old.pending # << >>
    /\ old.record.plan = "Pro"
    /\ recordOf(userPlans, req.email) = old.record

(* C11: decline for an identity without a pending request fails, it does  *)
(* not report success, and leaves the request list unchanged.              *)
C11_DeclineWithoutRequestFails ==
    [][(HandlerStep("decline") /\ ~HasPending(req'.email)) =>
          (res'.status # 200 /\ UNCHANGED upgradeRequests)]_vars

(* C12: a submit-upgrade whose plan is not Plus or Pro fails and appends   *)
(* nothing; only Plus and Pro requests are ever listed.                    *)
C12_InvalidTierRejected ==
    [][/\ (HandlerStep("submit") /\ req'.plan \notin {"Plus", "Pro"}) =>
            (res'.status # 200 /\ UNCHANGED upgradeRequests)
       /\ \A i \in 1..Len(listPending') :
            listPending'[i].plan \in {"Plus", "Pro"}]_vars

(* C13: a successful submit-upgrade adds one request of the identity       *)
(* behind those it already has pending: n submissions give n requests.     *)
C13_DuplicatesListed ==
    (req.op = "submit" /\ res.status = 200) =>
        pendingOf(listPending, req.email) = Append(old.pending, req.plan)

(* the identity had a request pending and has two after the submit *)
C13_Witness ==
    /\ req.op = "submit" /\ res.status = 200
    /\ old.pending # << >>
    /\ Len(pendingOf(listPending, req.email)) = 2

(* C14: the list follows the requests that are still pending, in the      *)
(* order of submission: a successful submit appends one, an approve or     *)
(* decline takes out the one it resolves (the earliest of the identity),   *)
(* and nothing else changes what is listed.                                *)
C14_ListIsPendingInOrder ==
    [][/\ (HandlerStep("submit") /\ res'.status = 200) =>
            listPending' = Append(listPending,
                                  [email |-> req'.email, plan |-> req'.plan])
       /\ (HandlerStep("approve") \/ HandlerStep("decline")) =>
            listPending' = RemoveEarliest(listPending, req'.email)
       /\ ~ (HandlerStep("submit") \/ HandlerStep("approve")
               \/ HandlerStep("decline")) =>
            listPending' = listPending]_vars

(* C15: the gate refuses a Pro page to an identity whose effective tier is *)
(* Free, and lets the request through when it is the first request after   *)
(* an approve of that identity with Pro.                                   *)
C15_DeniedThenAllowedAfterApprove ==
    [][(HandlerStep("gate") /\ req'.email # NoUser /\ req'.plan = "Pro") =>
          /\ getEffectiveTier(userPlans, req'.email, now) = "Free" =>
                res'.out = "/plans.html"
          /\ (req.op = "approve" /\ req.email = req'.email /\ req.plan = "Pro"
                /\ old.pending # << >>) =>
                res'.out = "next"]_vars

(* C16: a submit-upgrade without req.user gets 401 and leaves the list     *)
(* unchanged; a listed request carries the identity that submitted it.     *)
C16_SubmitNeedsIdentity ==
    [][/\ (HandlerStep("submit") /\ req'.email = NoUser) =>
            (res'.status = 401 /\ UNCHANGED upgradeRequests)
       /\ (HandlerStep("submit") /\ upgradeRequests' # upgradeRequests) =>
            /\ req'.email \in Emails
            /\ Len(upgradeRequests') = Len(upgradeRequests) + 1
            /\ upgradeRequests'[Len(upgradeRequests')].email = req'.email
       /\ \A i \in 1..Len(upgradeRequests') :
            upgradeRequests'[i].email \in Emails]_vars

(* a submit without identity was refused while requests were listed *)
C16_Witness ==
    /\ req.op = "submit" /\ req.email = NoUser
    /\ res.status = 401
    /\ upgradeRequests # << >>

(* C17: a generation endpoint answers with generated text, which it has    *)
(* only after the outbound call, to no request without a session identity  *)
(* and, on the advanced route behind the Plus page, to no identity whose   *)
(* effective tier is below Plus.                                           *)
C17_GenerateOnlyAfterGate ==
    [][((HandlerStep("generate-playground") \/ HandlerStep("generate-advanced"))
          /\ res'.status = 200) =>
            /\ req'.email # NoUser
            /\ req'.op = "generate-advanced" =>
                  TierRank(getEffectiveTier(userPlans, req'.email, now)) >=
                      TierRank("Plus")]_vars

(* C18: a request for /advancedai.html or /engineer.html is answered with  *)
(* the page only when it carries a session identity whose stored plan      *)
(* requirePlan accepts for that page.                                      *)
C18_PageOnlyAfterRequirePlan ==
    [][((HandlerStep("/advancedai.html") \/ HandlerStep("/engineer.html"))
          /\ res'.out = "page") =>
            /\ req'.email # NoUser
            /\ allowedGE(gatePlan(userPlans, req'.email), req'.plan)]_vars

(* C19: requirePlan has three outcomes and they tell the cases apart: no   *)
(* session identity is redirected to /login.html, an identity whose stored *)
(* tier ranks below the required one is redirected to /plans.html, and     *)
(* neither redirect is given in the other case or as an error status.      *)
C19_UpgradeRequiredDistinct ==
    req.op = "gate" =>
        /\ res.out \in {"/login.html", "/plans.html", "next"}
        /\ res.out = "/login.html" <=> req.email = NoUser
        /\ res.out = "/plans.html" <=>
              /\ req.email \in Emails
              /\ TierRank(gatePlan(userPlans, req.email)) < TierRank(req.plan)
        /\ res.out # "next" => res.status = 302

C19_Witness ==
    /\ req.op = "gate"
    /\ req.email \in Emails
    /\ res.out = "/plans.html"

(* C20: a resolved request is out of the pending list for good.  After an  *)
(* approve or decline the identity has no pending request; no handler but  *)
(* a new submit adds an entry to the list, so a resolved request never     *)
(* comes back; and an approve or decline for an identity whose requests    *)
(* are resolved leaves the list as it is.                                  *)
C20_ResolvedIsFinal ==
    [][/\ (HandlerStep("approve") \/ HandlerStep("decline")) =>
            pendingOf(listPending', req'.email) = << >>
       /\ ~ HandlerStep("submit") =>
            (listPending' = listPending \/ IsSubseq(listPending', listPending))
       /\ ((HandlerStep("approve") \/ HandlerStep("decline"))
               /\ ~HasPending(req'.email)) =>
            UNCHANGED upgradeRequests]_vars

C20_Witness ==
    /\ req.op \in {"approve", "decline"}
    /\ old.pending = << >>
    /\ old.record.expiry # Null
    /\ upgradeRequests # << >>

(* C21: the handlers of the ledger run to completion, so requests for one  *)
(* identity interleave as whole handlers.  Whenever a record changes, both *)
(* of its fields come from the one handler that ran: the plan and the      *)
(* expiry of that approve, or the Free record of a reset.  After an        *)
(* approve the record is the one that approve wrote, and no other handler  *)
(* writes a plan with an expiry.                                           *)
C21_RecordWrittenWhole ==
    [][/\ \A e \in Emails :
             recordOf(userPlans', e) # recordOf(userPlans, e) =>
                 \/ recordOf(userPlans', e) = [plan |-> "Free", expiry |-> Null]
                 \/ /\ HandlerStep("approve") /\ req'.email = e
                    /\ recordOf(userPlans', e) =
                          [plan |-> req'.plan, expiry |-> now + ThirtyDays]
       /\ HandlerStep("approve") =>
             recordOf(userPlans', req'.email) =
                 [plan |-> req'.plan, expiry |-> now + ThirtyDays]]_vars

(* a second approve, later and with another plan, for an identity that     *)
(* holds an approved record *)
C21_Witness ==
    /\ req.op = "approve"
    /\ old.record.expiry # Null
    /\ old.record.plan # req.plan
    /\ old.record.expiry # now + ThirtyDays
    /\ userPlans[req.email] = [plan |-> req.plan, expiry |-> now + ThirtyDays]

(* C22: every record whose plan is Free has no expiry.                     *)
C22_FreeNeverExpires ==
    \A e \in DOMAIN userPlans :
        userPlans[e].plan = "Free" => userPlans[e].expiry = Null

(* C23: the plan of every record is one of Free, Plus, Pro.                *)
C23_StoredTierInEnum ==
    \A e \in DOMAIN userPlans : userPlans[e].plan \in {"Free", "Plus", "Pro"}

(* C24: submit, login and logout leave what the ledger holds as it is:     *)
(* every record is unchanged and every listed request stays, in place; a   *)
(* submit only appends.  A listed request goes away only in an approve or  *)
(* a decline, and a record that has not expired changes only in an approve.*)
C24_OnlyAdminChangesEntities ==
    [][/\ (HandlerStep("login") \/ HandlerStep("logout")) =>
             UNCHANGED <<userPlans, upgradeRequests>>
       /\ HandlerStep("submit") => UNCHANGED userPlans
       /\ ~ (HandlerStep("approve") \/ HandlerStep("decline")) =>
             \/ listPending' = listPending
             \/ /\ HandlerStep("submit")
                /\ Len(listPending') > Len(listPending)
                /\ SubSeq(listPending', 1, Len(listPending)) = listPending
       /\ ~ HandlerStep("approve") =>
             \/ userPlans' = userPlans
             \/ \A e \in DOMAIN userPlans :
                   ~Expired(userPlans, e, now) =>
                       /\ e \in DOMAIN userPlans'
                       /\ userPlans'[e] = userPlans[e]]_vars

(* the identity of the session, holding an approved record and a pending   *)
(* request, submits one more *)
C24_Witness ==
    /\ req.op = "submit" /\ res.status = 200
    /\ old.pending # << >>
    /\ old.record.expiry # Null
    /\ session = req.email

(* C25: requirePlan leaves the request list as it is and changes no record *)
(* but, at most, the expired record of the identity it checks.             *)
C25_GateHasNoSideEffect ==
    [][HandlerStep("gate") =>
          /\ UNCHANGED upgradeRequests
          /\ \/ userPlans' = userPlans
             \/ \A e \in Emails :
                   (e # req'.email \/ ~Expired(userPlans, e, now)) =>
                       recordOf(userPlans', e) = recordOf(userPlans, e)]_vars

(* a denied identity with a record that has not expired, while requests    *)
(* are pending *)
C25_Witness ==
    /\ req.op = "gate" /\ res.out = "/plans.html"
    /\ old.record.expiry # Null /\ old.record.expiry >= now
    /\ userPlans[req.email] = old.record
    /\ upgradeRequests # << >>

(* C27: approve and decline for e leave every other identity as it was:    *)
(* its record, and its pending requests in their order among the requests  *)
(* of all the others.                                                      *)
C27_OtherIdentitiesUntouched ==
    [][(HandlerStep("approve") \/ HandlerStep("decline")) =>
          /\ \A f \in Emails \ {req'.email} :
                recordOf(userPlans', f) = recordOf(userPlans, f)
          /\ SelectSeq(listPending', LAMBDA r : r.email # req'.email) =
                SelectSeq(listPending, LAMBDA r : r.email # req'.email)]_vars

(* a request of e is declined while another identity holds a record and a  *)
(* pending request *)
C27_Witness ==
    /\ req.op = "decline"
    /\ old.pending # << >>
    /\ upgradeRequests # << >>
    /\ \E f \in DOMAIN userPlans : f # req.email /\ userPlans[f].expiry # Null

C28_UltraForwardsLastTwenty ==
    req.op = "generate-ultra" =>
        IF reqBody.kind # "array"
        THEN sent = <<400>> /\ calls = << >>
        ELSE LET n == Len(reqBody.items)
                 m == IF n < 20 THEN n ELSE 20
             IN /\ Len(calls) = 1
                /\ Len(calls[1].contents) = m
                /\ \A j \in 1..m :
                      /\ calls[1].contents[j].text =
                            reqBody.items[n - m + j].content
                      /\ calls[1].contents[j].role =
                            IF reqBody.items[n - m + j].role = "assistant"
                            THEN "model" ELSE "user"

(* more than 20 messages: the first one sent is the 20th from the end *)
C28_Witness ==
    /\ req.op = "generate-ultra"
    /\ reqBody.kind = "array" /\ Len(reqBody.items) > 20
    /\ Len(calls) = 1 /\ Len(calls[1].contents) = 20
    /\ calls[1].contents[1].text = Len(reqBody.items) - 19

(* C29: every POST to /api/generate-ai that reached the handler is         *)
(* eventually answered.                                                    *)
C29_GenerateAiAnswered ==
    (reqStream \in {"consumed", "unread"}) ~> (reqStream = "answered")

(* C30: load-chat answers with the data last saved under the id and its    *)
(* lastUpdated, and with 404 "Chat not found." for an id never saved.      *)
C30_ChatRoundTrip ==
    req.op = "load-chat" =>
        IF reqBody.items[1] \in DOMAIN chatStorage
        THEN /\ res.status = 200
             /\ res.out = chatStorage[reqBody.items[1]].data
             /\ res.expiry = chatStorage[reqBody.items[1]].lastUpdated
        ELSE /\ res.status = 404
             /\ res.out = "Chat not found."

====
